---- MODULE Spec2Model ----
(***************************************************************************)
(* Route reconciliation of pkg/node/routing.go: the route value, the       *)
(* nexthop installer, the L2 reachability validator, the route generation  *)
(* policy and syncClusterRouting, run against a kernel route table that    *)
(* other processes may change; and the default client of                   *)
(* pkg/kvstore/client.go, read while initClient runs.                      *)
(***************************************************************************)
EXTENDS Integers, Sequences, FiniteSets, TLC

VARIABLES
    table,       \* the kernel route table: a set of route entries
    cfg,         \* clusterConfiguation: nodes, auxPrefixes, usePerNodeRoutes
    direct,      \* localNode.Routing.DirectRouting.InstallRoutes
    env,         \* the kernel's behaviour: deviceOk, rejects, listOk, getOk
    lock,        \* holder of the clusterConfiguation mutex, or "none"
    pc,          \* position of each syncClusterRouting caller
    mpc,         \* position of the node-set mutator
    res,         \* result of the pass that holds the lock
    log,         \* calls issued by the pass that holds the lock, in order
    startTable,  \* the kernel table when the running pass took the lock
    quiet,       \* a pass has returned and nothing has changed since it took the lock
                 \* (where no pass is disturbed while it runs)
    events,      \* number of environment and configuration changes so far
    lastRes,     \* result of the pass that returned last
    auxAt,       \* index in cc.auxPrefixes of the next iteration of the loop at 306-308
    addrs,       \* the local node's router addresses and allocation ranges
    eq,          \* route.Equal: the two routes compared and the results
    kv           \* pkg/kvstore: defaultClient, initClient and the Client() callers

vars == <<table, cfg, direct, env, lock, pc, mpc, res, log, startTable, quiet, events,
          lastRes, auxAt, addrs, eq, kv>>

\* What no step of the route synchronizer changes
aside == <<addrs, eq, kv>>

\* The route synchronizer's state
syncVars == <<table, cfg, direct, env, lock, pc, mpc, res, log, startTable, quiet, events,
              lastRes, auxAt, addrs>>

\* ------------------------------------------------------------------ bounds

\* Environment and configuration changes in one behaviour.
MaxEvents == 1

\* Destinations the kernel rejects at one time.
MaxRejects == 1

\* ------------------------------------------------------------- addresses

NoIP == "nil"

V4Addrs == {"r4", "a4", "x4", "y4", "l4", "lp4", "n4", "np4", "u4", "gx", "sx"}

\* ip.To4() != nil
To4(ip) == ip \in V4Addrs

FAMILY_V4 == "inet"
FAMILY_V6 == "inet6"

SCOPE_UNIVERSE == "universe"
SCOPE_LINK == "link"

HostDevice == "cilium_host"

\* link.Attrs().Index of HostDevice; 0 is "no device" in a netlink.Route
HostIndex == 1
NoIndex == 0
\* another device of the host, used by routes this program does not own
OtherIndex == 2

\* *net.IPNet; NilNet is the nil pointer
IPNet(ip, ones, bits) == [ip |-> ip, ones |-> ones, bits |-> bits]
NilNet == IPNet(NoIP, 0, 0)

\* net.CIDRMask(32, 32) / net.CIDRMask(128, 128) applied to an address
HostNet4(ip) == IPNet(ip, 32, 32)
HostNet6(ip) == IPNet(ip, 128, 128)

\* The local node's addresses when both families are configured
AllPresent ==
    [router4 |-> "r4", router6 |-> "r6",
     alloc4 |-> IPNet("a4", 16, 32), alloc6 |-> IPNet("a6", 96, 128)]

\* The local node's addresses with at least one family fully configured: the
\* router address or the allocation range of the other may be absent
OneFamilyAbsent ==
    {a \in [router4 : {"r4", NoIP}, router6 : {"r6", NoIP},
            alloc4 : {IPNet("a4", 16, 32), NilNet}, alloc6 : {IPNet("a6", 96, 128), NilNet}] :
        \/ a.router4 = "r4" /\ a.alloc4 # NilNet
        \/ a.router6 = "r6" /\ a.alloc6 # NilNet}

GetInternalIPv4 == addrs.router4
GetIPv6Router == addrs.router6
GetIPv6 == "s6"
GetIPv4AllocRange == addrs.alloc4
GetIPv6AllocRange == addrs.alloc6

AuxA == IPNet("x4", 24, 32)
AuxB == IPNet("x6", 64, 128)
AuxUniverse == {AuxA, AuxB}
\* A second IPv4 auxiliary prefix, for a registry whose auxiliary prefixes
\* share the router address
AuxC == IPNet("y4", 24, 32)

\* The nodes the registry can hold. R's IPv6 address is not known.
NodeNames == {"L", "R"}
NodeOf(n) ==
    IF n = "L"
    THEN [name |-> "L", local |-> TRUE, ip4 |-> "l4", ip6 |-> "l6",
          cidr4 |-> IPNet("lp4", 24, 32), cidr6 |-> NilNet]
    ELSE [name |-> "R", local |-> FALSE, ip4 |-> "n4", ip6 |-> NoIP,
          cidr4 |-> IPNet("np4", 24, 32), cidr6 |-> IPNet("np6", 64, 128)]

\* The underlay network the nodes' own addresses live in; no route this
\* program installs covers a node address.
Underlay4 == IPNet("u4", 24, 32)
Covers(net, ip) == (net = Underlay4 /\ ip \in {"l4", "n4"}) \/ net.ip = ip

NodePrefixes == {NodeOf(n).cidr4 : n \in NodeNames} \cup {NodeOf(n).cidr6 : n \in NodeNames}
Prefixes == ({GetIPv4AllocRange, GetIPv6AllocRange} \cup AuxUniverse \cup NodePrefixes) \ {NilNet}
RouterNets == {HostNet4(GetInternalIPv4), HostNet6(GetIPv6Router)}
AllDsts == Prefixes \cup RouterNets \cup {Underlay4}

\* ------------------------------------------------------- the kernel table

\* netlink.Route
KRoute(dst, gw, src, link, scope) ==
    [dst |-> dst, gw |-> gw, src |-> src, link |-> link, scope |-> scope]

LogEntry(op, r, node, ok) ==
    [op |-> op, dst |-> r.dst, gw |-> r.gw, src |-> r.src, link |-> r.link,
     scope |-> r.scope, node |-> node, ok |-> ok]

NoRoute == KRoute(NilNet, NoIP, NoIP, NoIndex, SCOPE_UNIVERSE)

\* netlink.LinkByName(HostDevice)
LinkByName(e) == [err |-> ~e.deviceOk, index |-> IF e.deviceOk THEN HostIndex ELSE NoIndex]

\* netlink.RouteReplace: the entry of the same destination is replaced; a
\* route with no destination address, no source and no gateway is refused
RouteReplace(k, r, e) ==
    IF r.dst \in e.rejects \/ (r.dst.ip = NoIP /\ r.src = NoIP /\ r.gw = NoIP)
    THEN [tbl |-> k.tbl, log |-> Append(k.log, LogEntry("RouteReplace", r, "", FALSE)), err |-> TRUE]
    ELSE [tbl |-> {x \in k.tbl : x.dst # r.dst} \cup {r},
          log |-> Append(k.log, LogEntry("RouteReplace", r, "", TRUE)), err |-> FALSE]

\* netlink.RouteDel: the entry of that destination, gateway and device is removed
RouteDel(k, r, e) ==
    LET hit == {x \in k.tbl : x.dst = r.dst /\ x.gw = r.gw /\ (r.link = NoIndex \/ x.link = r.link)}
    IN IF hit = {}
       THEN [tbl |-> k.tbl, log |-> Append(k.log, LogEntry("RouteDel", r, "", FALSE)), err |-> TRUE]
       ELSE [tbl |-> k.tbl \ hit,
             log |-> Append(k.log, LogEntry("RouteDel", r, "", TRUE)), err |-> FALSE]

\* ipFamily
ipFamily(ip) == IF ~To4(ip) THEN FAMILY_V6 ELSE FAMILY_V4

\* netlink.RouteList(link, family): the entries of that device and family
RouteList(tbl, index, family, e) ==
    [err |-> ~e.listOk,
     routes |-> IF e.listOk
                THEN {x \in tbl : x.link = index /\ ipFamily(x.dst.ip) = family}
                ELSE {}]

\* netlink.RouteGet(ip): the longest-prefix entry covering ip, if any
RouteGet(tbl, ip, e) ==
    LET cand == {x \in tbl : Covers(x.dst, ip)}
        best == {x \in cand : \A y \in cand : y.dst.ones <= x.dst.ones}
    IN [err |-> ~e.getOk,
        routes |-> IF e.getOk /\ best # {} THEN <<CHOOSE x \in best : TRUE>> ELSE <<>>]

\* ------------------------------------------------------------ route value

\* type route struct
Route(link, prefix, via, source) ==
    [link |-> link, prefix |-> prefix, via |-> via, source |-> source]

\* route.getNetlinkRoute
getNetlinkRoute(r, e) ==
    LET l == LinkByName(e)
    IN IF r.link # "" /\ l.err
       THEN [err |-> TRUE, route |-> NoRoute]
       ELSE [err |-> FALSE,
             route |-> KRoute(r.prefix, r.via, r.source,
                              IF r.link # "" THEN l.index ELSE NoIndex, SCOPE_UNIVERSE)]

\* route.add
add(k, r, e) ==
    LET n == getNetlinkRoute(r, e)
    IN IF n.err THEN [tbl |-> k.tbl, log |-> k.log, err |-> TRUE]
       ELSE RouteReplace(k, n.route, e)

\* route.delete
delete(k, r, e) ==
    LET n == getNetlinkRoute(r, e)
    IN IF n.err THEN [tbl |-> k.tbl, log |-> k.log, err |-> TRUE]
       ELSE RouteDel(k, n.route, e)

\* ---------------------------------------------------- nexthop installer

\* findRoute: the entry of the device's route list that matches the filter's
\* device index, scope, destination (address and mask) and gateway, or NoRoute
findRoute(tbl, index, route, e) ==
    LET l == RouteList(tbl, index, ipFamily(route.dst.ip), e)
        hit == {r \in l.routes :
                   /\ ~(r.dst # NilNet /\ route.dst = NilNet)
                   /\ ~(route.dst # NilNet /\ r.dst = NilNet)
                   /\ r.link = route.link /\ r.scope = route.scope
                   /\ r.dst.ones = route.dst.ones /\ r.dst.bits = route.dst.bits
                   /\ r.dst.ip = route.dst.ip /\ r.gw = route.gw}
    IN IF l.err \/ hit = {} THEN NoRoute ELSE CHOOSE r \in hit : TRUE

\* Mutant: the route is replaced whether or not it is found
replaceNexthopRouteAlways(k, index, routerNet, e) ==
    LET route == KRoute(routerNet, NoIP, NoIP, index, SCOPE_LINK)
        k1 == [tbl |-> k.tbl, log |-> Append(k.log, LogEntry("replaceNexthopRoute", route, "", TRUE))]
    IN RouteReplace(k1, route, e)

\* Mutant: the error is returned also after a replace that succeeded
replaceNexthopRouteErrAfterInstall(k, index, routerNet, e) ==
    LET route == KRoute(routerNet, NoIP, NoIP, index, SCOPE_LINK)
        k1 == [tbl |-> k.tbl, log |-> Append(k.log, LogEntry("replaceNexthopRoute", route, "", TRUE))]
    IN IF findRoute(k.tbl, index, route, e) = NoRoute
       THEN [RouteReplace(k1, route, e) EXCEPT !.err = TRUE]
       ELSE [tbl |-> k1.tbl, log |-> k1.log, err |-> FALSE]

\* replaceNexthopRoute
replaceNexthopRoute(k, index, routerNet, e) ==
    LET route == KRoute(routerNet, NoIP, NoIP, index, SCOPE_LINK)
        k1 == [tbl |-> k.tbl, log |-> Append(k.log, LogEntry("replaceNexthopRoute", route, "", TRUE))]
    IN IF findRoute(k.tbl, index, route, e) = NoRoute
       THEN RouteReplace(k1, route, e)
       ELSE [tbl |-> k1.tbl, log |-> k1.log, err |-> FALSE]

\* The route replaceNodeRoute installs for a prefix
NodeRouteFor(ip, index) ==
    IF To4(ip.ip)
    THEN KRoute(ip, GetInternalIPv4, GetInternalIPv4, index, SCOPE_UNIVERSE)
    ELSE KRoute(ip, GetIPv6Router, GetIPv6, index, SCOPE_UNIVERSE)

\* Mutant: the prefix route is given up when the nexthop route fails
replaceNodeRouteStopOnNexthopError(k, ip, e) ==
    LET l == LinkByName(e)
        routerNet == IF To4(ip.ip) THEN HostNet4(GetInternalIPv4) ELSE HostNet6(GetIPv6Router)
        route == NodeRouteFor(ip, l.index)
        k1 == [tbl |-> k.tbl, log |-> Append(k.log, LogEntry("replaceNodeRoute", route, "", TRUE))]
        nh == replaceNexthopRoute(k1, l.index, routerNet, e)
        rr == RouteReplace([tbl |-> nh.tbl, log |-> nh.log], route, e)
    IN IF ip = NilNet THEN k
       ELSE IF l.err THEN k
       ELSE IF nh.err THEN [tbl |-> nh.tbl, log |-> nh.log]
       ELSE [tbl |-> rr.tbl, log |-> rr.log]

\* Mutant: the route is installed only if the destination has no route yet
replaceNodeRouteIfAbsent(k, ip, e) ==
    LET l == LinkByName(e)
        routerNet == IF To4(ip.ip) THEN HostNet4(GetInternalIPv4) ELSE HostNet6(GetIPv6Router)
        route == NodeRouteFor(ip, l.index)
        k1 == [tbl |-> k.tbl, log |-> Append(k.log, LogEntry("replaceNodeRoute", route, "", TRUE))]
        nh == replaceNexthopRoute(k1, l.index, routerNet, e)
        rr == RouteReplace([tbl |-> nh.tbl, log |-> nh.log], route, e)
    IN IF ip = NilNet THEN k
       ELSE IF l.err THEN k
       ELSE IF \E x \in nh.tbl : x.dst = ip THEN [tbl |-> nh.tbl, log |-> nh.log]
       ELSE [tbl |-> rr.tbl, log |-> rr.log]

\* replaceNodeRoute
replaceNodeRoute(k, ip, e) ==
    LET l == LinkByName(e)
        routerNet == IF To4(ip.ip) THEN HostNet4(GetInternalIPv4) ELSE HostNet6(GetIPv6Router)
        route == NodeRouteFor(ip, l.index)
        k1 == [tbl |-> k.tbl, log |-> Append(k.log, LogEntry("replaceNodeRoute", route, "", TRUE))]
        nh == replaceNexthopRoute(k1, l.index, routerNet, e)
        rr == RouteReplace([tbl |-> nh.tbl, log |-> nh.log], route, e)
    IN IF ip = NilNet THEN k
       ELSE IF l.err THEN k
       ELSE [tbl |-> rr.tbl, log |-> rr.log]

\* ------------------------------------------------------- route generation

\* Mutant: the test of the gateway is inverted
validateDirectL2RouteGwInverted(tbl, nodeIP, e) ==
    LET viaRoutes == RouteGet(tbl, nodeIP, e)
    IN IF nodeIP = NoIP THEN FALSE
       ELSE IF viaRoutes.err THEN FALSE
       ELSE IF Len(viaRoutes.routes) = 0 THEN FALSE
       ELSE IF viaRoutes.routes[1].gw = NoIP THEN FALSE
       ELSE TRUE

\* Mutant: the gateway of the best route is not looked at
validateDirectL2RouteAnyRoute(tbl, nodeIP, e) ==
    LET viaRoutes == RouteGet(tbl, nodeIP, e)
    IN IF nodeIP = NoIP THEN FALSE
       ELSE IF viaRoutes.err THEN FALSE
       ELSE IF Len(viaRoutes.routes) = 0 THEN FALSE
       ELSE TRUE

\* validateDirectL2Route: TRUE when it returns nil
validateDirectL2Route(tbl, nodeIP, e) ==
    LET viaRoutes == RouteGet(tbl, nodeIP, e)
    IN IF nodeIP = NoIP THEN FALSE
       ELSE IF viaRoutes.err THEN FALSE
       ELSE IF Len(viaRoutes.routes) = 0 THEN FALSE
       ELSE IF viaRoutes.routes[1].gw # NoIP THEN FALSE
       ELSE TRUE

\* Mutant: the direct route keeps the host device as its link
generateRouteForIPDirectOnDevice(n, route, nodeIP, routerIP, sourceIP, tbl, dr, upnr, e) ==
    IF dr /\ ~n.local /\ validateDirectL2Route(tbl, nodeIP, e)
    THEN [route EXCEPT !.via = nodeIP, !.link = HostDevice]
    ELSE IF upnr \/ n.local
         THEN [route EXCEPT !.link = HostDevice, !.via = routerIP, !.source = sourceIP]
         ELSE route

\* Mutant: the local node is not excluded from direct routing
generateRouteForIPDirectLocal(n, route, nodeIP, routerIP, sourceIP, tbl, dr, upnr, e) ==
    IF dr /\ validateDirectL2Route(tbl, nodeIP, e)
    THEN [route EXCEPT !.via = nodeIP]
    ELSE IF upnr \/ n.local
         THEN [route EXCEPT !.link = HostDevice, !.via = routerIP, !.source = sourceIP]
         ELSE route

\* Mutant: reachability is validated for the prefix's address, not the node's
generateRouteForIPValidatesPrefix(n, route, nodeIP, routerIP, sourceIP, tbl, dr, upnr, e) ==
    IF dr /\ ~n.local /\ validateDirectL2Route(tbl, route.prefix.ip, e)
    THEN [route EXCEPT !.via = nodeIP]
    ELSE IF upnr \/ n.local
         THEN [route EXCEPT !.link = HostDevice, !.via = routerIP, !.source = sourceIP]
         ELSE route

\* Node.generateRouteForIP
generateRouteForIP(n, route, nodeIP, routerIP, sourceIP, tbl, dr, upnr, e) ==
    IF dr /\ ~n.local /\ validateDirectL2Route(tbl, nodeIP, e)
    THEN [route EXCEPT !.via = nodeIP]
    ELSE IF upnr \/ n.local
         THEN [route EXCEPT !.link = HostDevice, !.via = routerIP, !.source = sourceIP]
         ELSE route

\* Node.generateRoute
generateRoute(n, prefix, tbl, dr, upnr, e) ==
    LET route == Route("", prefix, NoIP, NoIP)
    IN IF To4(prefix.ip)
       THEN generateRouteForIP(n, route, n.ip4, GetInternalIPv4, GetInternalIPv4, tbl, dr, upnr, e)
       ELSE generateRouteForIP(n, route, n.ip6, GetIPv6Router, GetIPv6, tbl, dr, upnr, e)

\* clusterNode.synchronizeToDatapath for one prefix of the node: the
\* generated route is installed unless it is the fallback placeholder
syncNodePrefix(k, n, prefix, dr, upnr, e) ==
    LET r == generateRoute(n, prefix, k.tbl, dr, upnr, e)
        a == add(k, r, e)
    IN IF prefix = NilNet \/ (r.via = NoIP /\ r.link = "") THEN k
       ELSE [tbl |-> a.tbl, log |-> a.log]

\* clusterNode.synchronizeToDatapath
synchronizeToDatapath(k, name, dr, upnr, e) ==
    LET n == NodeOf(name)
        k0 == [tbl |-> k.tbl,
               log |-> Append(k.log, LogEntry("synchronizeToDatapath", NoRoute, name, TRUE))]
        k1 == syncNodePrefix(k0, n, n.cidr4, dr, upnr, e)
    IN syncNodePrefix(k1, n, n.cidr6, dr, upnr, e)

\* ---------------------------------------------------- syncClusterRouting

Procs == {"p1", "p2"}

\* The orders in which `range cc.nodes` can visit the node set
Orders(S) ==
    {o \in [1..Cardinality(S) -> S] : \A i, j \in 1..Cardinality(S) : i # j => o[i] # o[j]}

RECURSIVE syncNodes(_, _, _, _, _)
\* for _, ns := range cc.nodes { ns.synchronizeToDatapath() }
syncNodes(k, ord, dr, upnr, e) ==
    IF Len(ord) = 0 THEN k
    ELSE syncNodes(synchronizeToDatapath(k, Head(ord), dr, upnr, e), Tail(ord), dr, upnr, e)

\* Mutant: the mode test is inverted
syncFallbackInverted(k, upnr, e) ==
    IF upnr
    THEN replaceNodeRoute(replaceNodeRoute(k, GetIPv4AllocRange, e), GetIPv6AllocRange, e)
    ELSE k

\* if !cc.usePerNodeRoutes { replaceNodeRoute(v4 range); replaceNodeRoute(v6 range) }
syncFallback(k, upnr, e) ==
    IF ~upnr
    THEN replaceNodeRoute(replaceNodeRoute(k, GetIPv4AllocRange, e), GetIPv6AllocRange, e)
    ELSE k

\* Mutant: the loop ends at the first prefix for which the kernel rejects a
\* replace, of the nexthop route or of the prefix route
syncAuxStopOnError(k, aux, i, e) ==
    LET r == replaceNodeRoute(k, aux[i], e)
    IN [tbl |-> r.tbl, log |-> r.log,
        next |-> IF \E j \in (Len(k.log) + 1)..Len(r.log) : ~r.log[j].ok
                 THEN Len(aux) + 1 ELSE i + 1]

\* One iteration of
\*   for _, prefix := range cc.auxPrefixes { replaceNodeRoute(prefix) }
\* on the prefix at index i; next is the index the loop goes on with.
syncAux(k, aux, i, e) ==
    LET r == replaceNodeRoute(k, aux[i], e)
    IN [tbl |-> r.tbl, log |-> r.log, next |-> i + 1]

K == [tbl |-> table, log |-> log]

\* Mutant: the lock is granted while it is held
CanLockAlways == TRUE

\* cc.Lock() can return
CanLock == lock = "none"

\* cc.Lock()
Lock(p) ==
    /\ pc[p] = "idle"
    /\ CanLock
    /\ lock' = p
    /\ pc' = [pc EXCEPT ![p] = "link"]
    /\ startTable' = table
    /\ log' = <<>>
    /\ res' = "none"
    /\ UNCHANGED <<aside, auxAt, lastRes, table, cfg, direct, env, mpc, quiet, events>>

\* Mutant: the pass goes on without the device
ResolveDeviceIgnoresError(p) ==
    /\ pc[p] = "link"
    /\ pc' = [pc EXCEPT ![p] = "nh4"]
    /\ UNCHANGED <<aside, auxAt, lastRes, table, cfg, direct, env, lock, mpc, res, log, startTable, quiet, events>>

\* link, err := netlink.LinkByName(HostDevice); if err != nil { return err }
ResolveDevice(p) ==
    /\ pc[p] = "link"
    /\ IF LinkByName(env).err
       THEN pc' = [pc EXCEPT ![p] = "ret"] /\ res' = "err"
       ELSE pc' = [pc EXCEPT ![p] = "nh4"] /\ res' = res
    /\ UNCHANGED <<aside, auxAt, lastRes, table, cfg, direct, env, lock, mpc, log, startTable, quiet, events>>

\* The two replaceNexthopRoute calls of syncClusterRouting
InstallNexthop(p, at, routerNet, next) ==
    /\ pc[p] = at
    /\ LET r == replaceNexthopRoute(K, LinkByName(env).index, routerNet, env)
       IN /\ table' = r.tbl
          /\ log' = r.log
          /\ IF r.err
             THEN pc' = [pc EXCEPT ![p] = "ret"] /\ res' = "err"
             ELSE pc' = [pc EXCEPT ![p] = next] /\ res' = res
    /\ UNCHANGED <<aside, auxAt, lastRes, cfg, direct, env, lock, mpc, startTable, quiet, events>>

Nexthop4(p) == InstallNexthop(p, "nh4", HostNet4(GetInternalIPv4), "nh6")
Nexthop6(p) == InstallNexthop(p, "nh6", HostNet6(GetIPv6Router), "nodes")

SyncNodes(p) ==
    /\ pc[p] = "nodes"
    /\ \E ord \in Orders(cfg.nodes) :
          LET r == syncNodes(K, ord, direct, cfg.upnr, env)
          IN table' = r.tbl /\ log' = r.log
    /\ pc' = [pc EXCEPT ![p] = "fallback"]
    /\ UNCHANGED <<aside, auxAt, lastRes, cfg, direct, env, lock, mpc, res, startTable, quiet, events>>

SyncFallback(p) ==
    /\ pc[p] = "fallback"
    /\ LET r == syncFallback(K, cfg.upnr, env)
       IN table' = r.tbl /\ log' = r.log
    /\ pc' = [pc EXCEPT ![p] = "aux"]
    /\ UNCHANGED <<aside, auxAt, lastRes, cfg, direct, env, lock, mpc, res, startTable, quiet, events>>

\* The loop at 306-308, one iteration a step: the kernel is free to change
\* between two replaceNodeRoute calls. After the last iteration, return nil.
SyncAux(p) ==
    /\ pc[p] = "aux"
    /\ IF auxAt > Len(cfg.aux)
       THEN /\ pc' = [pc EXCEPT ![p] = "ret"]
            /\ res' = "ok"
            /\ auxAt' = 1
            /\ UNCHANGED <<table, log>>
       ELSE LET r == syncAux(K, cfg.aux, auxAt, env)
                done == r.next > Len(cfg.aux)
            IN /\ table' = r.tbl
               /\ log' = r.log
               /\ pc' = [pc EXCEPT ![p] = IF done THEN "ret" ELSE "aux"]
               /\ res' = IF done THEN "ok" ELSE res
               /\ auxAt' = IF done THEN 1 ELSE r.next
    /\ UNCHANGED <<aside, lastRes, cfg, direct, env, lock, mpc, startTable, quiet, events>>

\* Mutant: the lock is released only by a pass that returns nil
ReturnKeepsLockOnError(p) ==
    /\ pc[p] = "ret"
    /\ lock' = IF res = "err" THEN lock ELSE "none"
    /\ pc' = [pc EXCEPT ![p] = "idle"]
    /\ quiet' = TRUE
    /\ log' = <<>>
    /\ res' = "none"
    /\ startTable' = {}
    /\ lastRes' = res
    /\ UNCHANGED <<aside, auxAt, table, cfg, direct, env, mpc, events>>

\* return, and the deferred cc.Unlock()
Return(p) ==
    /\ pc[p] = "ret"
    /\ lock' = "none"
    /\ pc' = [pc EXCEPT ![p] = "idle"]
    /\ quiet' = TRUE
    /\ log' = <<>>
    /\ res' = "none"
    /\ startTable' = {}
    /\ lastRes' = res
    /\ UNCHANGED <<aside, auxAt, table, cfg, direct, env, mpc, events>>

\* ------------------------------------------- the node registry's mutators

AuxSeqs == {<<>>, <<AuxA>>, <<AuxB>>, <<AuxA, AuxB>>, <<AuxB, AuxA>>}

Configs == [nodes : SUBSET NodeNames, aux : AuxSeqs, upnr : BOOLEAN]

\* A membership or mode change takes the clusterConfiguation lock
MutLock ==
    /\ mpc = "idle"
    /\ events < MaxEvents
    /\ lock = "none"
    /\ lock' = "mutator"
    /\ mpc' = "locked"
    /\ UNCHANGED <<aside, auxAt, lastRes, table, cfg, direct, env, pc, res, log, startTable, quiet, events>>

\* and changes the node set, the auxiliary prefixes or usePerNodeRoutes
MutApply ==
    /\ mpc = "locked"
    /\ \E c \in Configs :
          /\ c # cfg
          /\ \/ c.aux = cfg.aux /\ c.upnr = cfg.upnr
             \/ c.nodes = cfg.nodes /\ c.upnr = cfg.upnr
             \/ c.nodes = cfg.nodes /\ c.aux = cfg.aux
          /\ cfg' = c
    /\ lock' = "none"
    /\ mpc' = "idle"
    /\ events' = events + 1
    /\ quiet' = FALSE
    /\ UNCHANGED <<aside, auxAt, lastRes, table, direct, env, pc, res, log, startTable>>

\* ------------------------------------------------------- the environment

\* The environment changes between passes: a pass that is running is not
\* disturbed, so that what it leaves behind is its own work
Changed ==
    /\ lock = "none"
    /\ events < MaxEvents
    /\ events' = events + 1
    /\ quiet' = FALSE

\* Another process deletes a route
DriftDelete ==
    /\ Changed
    /\ \E r \in table : table' = table \ {r}
    /\ UNCHANGED <<aside, auxAt, lastRes, cfg, direct, env, lock, pc, mpc, res, log, startTable>>

\* Another process replaces the route of a destination by its own, on
\* another device, directly connected or through its gateway
DriftReplace ==
    /\ Changed
    /\ \E dst \in AllDsts, gw \in {NoIP, "gx"} :
          LET r == KRoute(dst, gw, NoIP, OtherIndex,
                          IF gw = NoIP THEN SCOPE_LINK ELSE SCOPE_UNIVERSE)
          IN /\ r \notin table
             /\ table' = {x \in table : x.dst # dst} \cup {r}
    /\ UNCHANGED <<aside, auxAt, lastRes, cfg, direct, env, lock, pc, mpc, res, log, startTable>>

\* Another process changes the preferred source of a route
DriftSource ==
    /\ Changed
    /\ \E r \in table :
          /\ r.src # "sx"
          /\ table' = (table \ {r}) \cup {[r EXCEPT !.src = "sx"]}
    /\ UNCHANGED <<aside, auxAt, lastRes, cfg, direct, env, lock, pc, mpc, res, log, startTable>>

RejectSets == {S \in SUBSET (RouterNets \cup AuxUniverse) : Cardinality(S) <= MaxRejects}

\* The host device appears or disappears, the kernel starts or stops
\* rejecting a destination, route listing or lookup starts or stops failing
EnvChange ==
    /\ Changed
    /\ \E e \in [deviceOk : BOOLEAN, rejects : RejectSets, listOk : BOOLEAN, getOk : BOOLEAN] :
          /\ e # env
          /\ \/ e.rejects = env.rejects /\ e.listOk = env.listOk /\ e.getOk = env.getOk
             \/ e.deviceOk = env.deviceOk /\ e.listOk = env.listOk /\ e.getOk = env.getOk
             \/ e.deviceOk = env.deviceOk /\ e.rejects = env.rejects /\ e.getOk = env.getOk
             \/ e.deviceOk = env.deviceOk /\ e.rejects = env.rejects /\ e.listOk = env.listOk
          /\ env' = e
    /\ UNCHANGED <<aside, auxAt, lastRes, table, cfg, direct, lock, pc, mpc, res, log, startTable>>

\* ---------------------------------------------------------- route.Equal

\* net.IP as a byte slice: an IPv4 address is held in 4 bytes or, mapped
\* into IPv6, in 16; the nil slice has length 0
IPBytes(addr, len) == [addr |-> addr, len |-> len]
NilIP == IPBytes(NoIP, 0)

\* net.IP.Equal: slices of the same length compare by their bytes, a 4-byte
\* address equals its 16-byte form
IPEqual(x, y) ==
    IF x.len = y.len THEN x.addr = y.addr
    ELSE IF x.len = 4 /\ y.len = 16 THEN To4(y.addr) /\ x.addr = y.addr
    ELSE IF x.len = 16 /\ y.len = 4 THEN To4(x.addr) /\ x.addr = y.addr
    ELSE FALSE

\* *net.IPNet as a pointer: the object's identity and its value; id 0 is nil
Ptr(id, net) == [id |-> id, net |-> net]
NilPtr == Ptr(0, NilNet)

\* net.IPNet.String: the address and the length of the mask; the mask of an
\* IPv4 address given in 16 bytes is read from its last 4 bytes
IPNetString(n) ==
    IF n.ip = NoIP THEN <<"<nil>">>
    ELSE IF To4(n.ip)
         THEN IF n.bits = 32 THEN <<n.ip, n.ones>>
              ELSE <<n.ip, IF n.ones > 96 THEN n.ones - 96 ELSE 0>>
         ELSE IF n.bits = 128 THEN <<n.ip, n.ones>> ELSE <<"<nil>">>

\* Mutant: prefixes are compared as pointers only
EqualByPointer(r, o) ==
    /\ r.link = o.link
    /\ IPEqual(r.via, o.via)
    /\ IPEqual(r.source, o.source)
    /\ r.prefix.id = o.prefix.id

\* route.Equal
Equal(r, o) ==
    /\ r.link = o.link
    /\ IPEqual(r.via, o.via)
    /\ IPEqual(r.source, o.source)
    /\ \/ r.prefix.id = o.prefix.id
       \/ /\ r.prefix.id # 0
          /\ o.prefix.id # 0
          /\ IPNetString(r.prefix.net) = IPNetString(o.prefix.net)

\* The prefix objects of the comparison: two objects of identical bits, the
\* same network with its mask in 16 bytes, another network, and nil
EqPrefixes ==
    {NilPtr,
     Ptr(1, IPNet("lp4", 24, 32)), Ptr(2, IPNet("lp4", 24, 32)),
     Ptr(3, IPNet("lp4", 120, 128)), Ptr(4, IPNet("np4", 24, 32))}

EqRoutes ==
    {Route(l, p, v, s) :
        l \in {"", HostDevice}, p \in EqPrefixes,
        v \in {NilIP, IPBytes("r4", 4), IPBytes("r4", 16), IPBytes("n4", 4)},
        s \in {NilIP, IPBytes("r4", 4)}}

EqNone == Route("", NilPtr, NilIP, NilIP)

\* No comparison is under way
EqIdle == [pc |-> "idle", a |-> EqNone, b |-> EqNone, ab |-> FALSE, ba |-> FALSE, aa |-> FALSE]

\* a.Equal(b), b.Equal(a) and a.Equal(a) for the two routes drawn
CallEqual ==
    /\ eq.pc = "call"
    /\ eq' = [eq EXCEPT !.pc = "done",
                        !.ab = Equal(eq.a, eq.b),
                        !.ba = Equal(eq.b, eq.a),
                        !.aa = Equal(eq.a, eq.a)]
    /\ UNCHANGED <<syncVars, kv>>

\* -------------------------------------------------- pkg/kvstore/client.go

\* Calls of initClient in one behaviour.
MaxInits == 2

\* The goroutines that call Client(). A call changes nothing another call
\* reads, so what one caller can be returned is what any caller can be
Callers == {"g1"}

\* An interface value is two words, the type and the data; it is nil when
\* its type word is nil. The backend made by the i-th call is Backend(i)
Iface(typ, data) == [typ |-> typ, data |-> data]
NilIface == Iface(0, 0)
Backend(i) == Iface(i, i)
IsNil(v) == v.typ = 0

\* A Client() call that has returned: the value, and initClient's position,
\* last result and number of calls when the call began and when it returned
NoRead == [val |-> NilIface, pc |-> "none", ret |-> "none", calls |-> 0,
           endPc |-> "none", endRet |-> "none", endCalls |-> 0]

\* A Client() call between its two loads: the word loaded (w) and its value,
\* and initClient's position, last result and number of calls at the call
NotReading == [w |-> "none", v |-> 0, pc |-> "none", ret |-> "none", calls |-> 0]

\* defaultClient is nil, initClient has not been called, nobody has read it
KvIdle ==
    [defaultClient |-> NilIface,
     pc |-> "idle",        \* position of initClient
     c |-> NilIface,       \* c of the running call
     written |-> {},       \* words of defaultClient the running assignment has stored
     calls |-> 0,          \* calls of initClient so far
     ret |-> "none",       \* what the last call returned
     before |-> NilIface,  \* defaultClient when the last call began
     rd |-> [g \in Callers |-> NotReading],  \* each caller's Client() call in progress
     got |-> [g \in Callers |-> NoRead]]     \* what each caller's last Client() returned, and when

\* defaultClient with one word of v stored into it. The variable is written
\* and read without synchronization: a concurrent Client() can see one word
\* stored and the other not
StoreWord(d, w, v) == IF w = "typ" THEN [d EXCEPT !.typ = v.typ] ELSE [d EXCEPT !.data = v.data]

\* initClient is called
initClient ==
    /\ kv.pc = "idle"
    /\ kv.calls < MaxInits
    /\ kv' = [kv EXCEPT !.pc = "newClient", !.calls = @ + 1, !.ret = "none",
                        !.before = kv.defaultClient, !.c = NilIface]
    /\ UNCHANGED <<syncVars, eq>>

\* c, err := module.newClient(); if err != nil { return err }
newClient ==
    /\ kv.pc = "newClient"
    /\ \E ok \in BOOLEAN :
          kv' = IF ok
                THEN [kv EXCEPT !.pc = "assign", !.c = Backend(kv.calls), !.written = {}]
                ELSE [kv EXCEPT !.pc = "idle", !.ret = "errNewClient"]
    /\ UNCHANGED <<syncVars, eq>>

\* defaultClient = c, one word at a time
assignClient ==
    /\ kv.pc = "assign"
    /\ \E w \in {"typ", "data"} \ kv.written :
          kv' = [kv EXCEPT !.defaultClient = StoreWord(@, w, kv.c),
                           !.written = @ \cup {w},
                           !.pc = IF kv.written = {} THEN "assign" ELSE "deleteLegacyPrefixes"]
    /\ UNCHANGED <<syncVars, eq>>

\* deleteLegacyPrefixes()
deleteLegacyPrefixes ==
    /\ kv.pc = "deleteLegacyPrefixes"
    /\ kv' = [kv EXCEPT !.pc = "renewDefaultLease", !.written = {}]
    /\ UNCHANGED <<syncVars, eq>>

\* Mutant: a failed renewal returns the error and leaves defaultClient set
renewDefaultLeaseKeepsClient ==
    /\ kv.pc = "renewDefaultLease"
    /\ \E ok \in BOOLEAN :
          kv' = IF ok
                THEN [kv EXCEPT !.pc = "idle", !.ret = "nil"]
                ELSE [kv EXCEPT !.pc = "idle", !.ret = "errRenew"]
    /\ UNCHANGED <<syncVars, eq>>

\* if err := renewDefaultLease(); err != nil { ... }; return nil
renewDefaultLease ==
    /\ kv.pc = "renewDefaultLease"
    /\ \E ok \in BOOLEAN :
          kv' = IF ok
                THEN [kv EXCEPT !.pc = "idle", !.ret = "nil"]
                ELSE [kv EXCEPT !.pc = "clear"]
    /\ UNCHANGED <<syncVars, eq>>

\* defaultClient = nil, one word at a time; return err
clearClient ==
    /\ kv.pc = "clear"
    /\ \E w \in {"typ", "data"} \ kv.written :
          kv' = [kv EXCEPT !.defaultClient = StoreWord(@, w, NilIface),
                           !.written = IF kv.written = {} THEN {w} ELSE {},
                           !.pc = IF kv.written = {} THEN "clear" ELSE "idle",
                           !.ret = IF kv.written = {} THEN "none" ELSE "errRenew"]
    /\ UNCHANGED <<syncVars, eq>>

\* One word of defaultClient
LoadWord(d, w) == IF w = "typ" THEN d.typ ELSE d.data

\* Client(): return defaultClient. The read is two loads, of the type word
\* and of the data word, in an order the build chooses and with no
\* synchronization: initClient can store between them. This is the first load
Client(g) ==
    /\ kv.rd[g].w = "none"
    /\ \E w \in {"typ", "data"} :
          kv' = [kv EXCEPT !.rd[g] = [w |-> w, v |-> LoadWord(kv.defaultClient, w),
                                      pc |-> kv.pc, ret |-> kv.ret, calls |-> kv.calls]]
    /\ UNCHANGED <<syncVars, eq>>

\* The second load of Client(), and its return
ClientReturn(g) ==
    /\ kv.rd[g].w # "none"
    /\ LET r == kv.rd[g]
           val == IF r.w = "typ" THEN Iface(r.v, kv.defaultClient.data)
                                 ELSE Iface(kv.defaultClient.typ, r.v)
       IN kv' = [kv EXCEPT !.rd[g] = NotReading,
                           !.got[g] = [val |-> val, pc |-> r.pc, ret |-> r.ret,
                                       calls |-> r.calls, endPc |-> kv.pc,
                                       endRet |-> kv.ret, endCalls |-> kv.calls]]
    /\ UNCHANGED <<syncVars, eq>>

\* The kernel starts or stops rejecting a destination while a pass runs
RejectsChangeInPass ==
    /\ lock \in Procs
    /\ events < MaxEvents
    /\ \E S \in RejectSets : S # env.rejects /\ env' = [env EXCEPT !.rejects = S]
    /\ events' = events + 1
    /\ UNCHANGED <<aside, auxAt, lastRes, table, cfg, direct, lock, pc, mpc, res, log, startTable, quiet>>

\* ------------------------------------------------------ the specification

\* Before the first pass: the registry holds every node and both auxiliary
\* prefixes (in either order), the kernel has the connected route to the
\* nodes' network and accepts everything; the mutators and the environment
\* change this from here
InitialTable == {KRoute(Underlay4, NoIP, NoIP, OtherIndex, SCOPE_LINK)}

EnvOk == [deviceOk |-> TRUE, rejects |-> {}, listOk |-> TRUE, getOk |-> TRUE]

\* The synchronizer before its first pass, with the registry drawn from C,
\* the kernel's behaviour from E and the local node's addresses from A
InitCfg(C, E, A) ==
    /\ table = InitialTable
    /\ cfg \in C
    /\ direct \in BOOLEAN
    /\ env \in E
    /\ addrs \in A
    /\ lock = "none"
    /\ pc = [p \in Procs |-> "idle"]
    /\ mpc = "idle"
    /\ res = "none"
    /\ log = <<>>
    /\ startTable = {}
    /\ quiet = FALSE
    /\ events = 0
    /\ lastRes = "none"
    /\ auxAt = 1

\* The same with every node and both auxiliary prefixes of AuxUniverse, in
\* either order, in the registry
InitSync(E, A) ==
    InitCfg({c \in Configs : c.nodes = NodeNames /\ Len(c.aux) = Cardinality(AuxUniverse)}, E, A)

Init ==
    /\ InitSync({EnvOk}, {AllPresent})
    /\ eq = EqIdle
    /\ kv = KvIdle

Pass(p) ==
    \/ Lock(p)
    \/ ResolveDevice(p)
    \/ Nexthop4(p)
    \/ Nexthop6(p)
    \/ SyncNodes(p)
    \/ SyncFallback(p)
    \/ SyncAux(p)
    \/ Return(p)

Next ==
    \/ \E p \in Procs : Pass(p)
    \/ MutLock
    \/ MutApply
    \/ DriftDelete
    \/ DriftReplace
    \/ DriftSource
    \/ EnvChange

Spec == Init /\ [][Next]_vars

\* What a pass does between taking the lock and having released it
Running(p) ==
    \/ ResolveDevice(p)
    \/ Nexthop4(p)
    \/ Nexthop6(p)
    \/ SyncNodes(p)
    \/ SyncFallback(p)
    \/ SyncAux(p)
    \/ Return(p)

\* A goroutine that holds the lock keeps running: no step of a pass or of a
\* mutator waits for anything once the lock is taken. For a pass this is
\* WF_vars(Running(p)), written out with what ENABLED <<Running(p)>>_vars
\* amounts to: the pass is not idle
SpecFair ==
    /\ Spec
    /\ \A p \in Procs : []<>(pc[p] = "idle") \/ []<><<Running(p)>>_vars
    /\ WF_vars(MutApply)

\* The synchronizer on a node on which one family may not be configured
InitNil ==
    /\ InitSync({EnvOk}, OneFamilyAbsent)
    /\ eq = EqIdle
    /\ kv = KvIdle

SpecNil == InitNil /\ [][Next]_vars

\* The synchronizer started with or without the host device
InitDev ==
    /\ InitSync({EnvOk, [EnvOk EXCEPT !.deviceOk = FALSE]}, {AllPresent})
    /\ eq = EqIdle
    /\ kv = KvIdle

SpecDev == InitDev /\ [][Next]_vars

\* The synchronizer with or without a working route listing, and a kernel
\* that may change what it rejects while a pass runs
InitMid ==
    /\ InitSync({EnvOk, [EnvOk EXCEPT !.listOk = FALSE]}, {AllPresent})
    /\ eq = EqIdle
    /\ kv = KvIdle

NextMid ==
    \/ Next
    \/ RejectsChangeInPass

SpecMid == InitMid /\ [][NextMid]_vars

\* The same with two auxiliary prefixes in the registry, of the same family
\* or not, in either order
InitAux ==
    /\ InitCfg([nodes : {NodeNames}, upnr : BOOLEAN,
                aux : {<<AuxA, AuxC>>, <<AuxC, AuxA>>, <<AuxA, AuxB>>, <<AuxB, AuxA>>}],
               {EnvOk, [EnvOk EXCEPT !.listOk = FALSE]}, {AllPresent})
    /\ ~direct
    /\ eq = EqIdle
    /\ kv = KvIdle

SpecAux == InitAux /\ [][NextMid]_vars

\* The synchronizer at rest, for the specifications of the other parts
SyncAtRest ==
    /\ InitSync({EnvOk}, {AllPresent})
    /\ ~direct
    /\ ~cfg.upnr
    /\ cfg.aux = <<AuxA, AuxB>>

\* route.Equal applied to every pair of routes of EqRoutes
InitEq ==
    /\ SyncAtRest
    /\ kv = KvIdle
    /\ \E a \in EqRoutes, b \in EqRoutes : eq = [EqIdle EXCEPT !.pc = "call", !.a = a, !.b = b]

NextEq == CallEqual

SpecEq == InitEq /\ [][NextEq]_vars

\* initClient, called up to MaxInits times in a row, and the Client() callers
InitKv ==
    /\ SyncAtRest
    /\ eq = EqIdle
    /\ kv = KvIdle

NextKv ==
    \/ initClient
    \/ newClient
    \/ assignClient
    \/ deleteLegacyPrefixes
    \/ renewDefaultLease
    \/ clearClient
    \/ \E g \in Callers : Client(g)
    \/ \E g \in Callers : ClientReturn(g)

SpecKv == InitKv /\ [][NextKv]_vars

\* ------------------------------------------------------------- properties

NodeAddrs == {NodeOf(n).ip4 : n \in NodeNames} \cup {NodeOf(n).ip6 : n \in NodeNames}

\* A pass has run to its return statement; the lock is still held
AtReturn(p) == pc[p] = "ret"

LogIdx == DOMAIN log
Range(f) == {f[i] : i \in DOMAIN f}

IsReplace(i) == log[i].op = "RouteReplace"

\* The kernel accepted every replace of the running pass
AllReplacesOk == \A i \in LogIdx : IsReplace(i) => log[i].ok

\* The link-scoped route to the router address on the host device
WantNexthop(routerNet) == KRoute(routerNet, NoIP, NoIP, HostIndex, SCOPE_LINK)

\* The route to a prefix through the router address of its family
WantRoute(prefix) ==
    IF prefix.bits = 32
    THEN KRoute(prefix, GetInternalIPv4, GetInternalIPv4, HostIndex, SCOPE_UNIVERSE)
    ELSE KRoute(prefix, GetIPv6Router, GetIPv6, HostIndex, SCOPE_UNIVERSE)

AllocRanges == {GetIPv4AllocRange, GetIPv6AllocRange}

WantedPrefixRoutes ==
    {WantRoute(a) : a \in Range(cfg.aux)}
        \cup (IF cfg.upnr THEN {} ELSE {WantRoute(a) : a \in AllocRanges})

WantedNexthops == {WantNexthop(n) : n \in RouterNets}

\* r is in the table, whatever its preferred source is
PresentUpToSource(r) == \E x \in table : [x EXCEPT !.src = r.src] = r

\* C1: when a pass follows a pass and nothing (configuration, kernel
\* behaviour, kernel table) changed since the first one began, the second
\* pass leaves the kernel route table exactly as it found it.
C1_Idempotent ==
    \A p \in Procs : AtReturn(p) /\ quiet => table = startTable

\* The second of two undisturbed passes has issued replaces and the table,
\* holding the routes of the first pass, is unchanged.
C1_Witness ==
    \E p \in Procs :
        /\ AtReturn(p) /\ quiet /\ res = "ok"
        /\ \E i \in LogIdx : IsReplace(i) /\ log[i].ok
        /\ WantRoute(GetIPv4AllocRange) \in table
        /\ table = startTable

\* C2 as claimed: after a pass in which the device resolved and the kernel
\* accepted every replace, every nexthop, fallback and auxiliary-prefix route
\* that was missing or altered when the pass began is in the table with the
\* desired destination, gateway, source and device.
C2_Original ==
    \A p \in Procs :
        AtReturn(p) /\ res = "ok" /\ AllReplacesOk =>
            \A r \in WantedNexthops \cup WantedPrefixRoutes :
                r \notin startTable => r \in table

\* C2 as amended: after such a pass every fallback and auxiliary-prefix route
\* is in the table exactly as desired, and every nexthop route is in the
\* table with the desired destination, gateway, scope and device; the source
\* of a nexthop route that still matched is left as it was found.
C2_Reconverges ==
    \A p \in Procs :
        AtReturn(p) /\ res = "ok" /\ AllReplacesOk =>
            /\ \A r \in WantedPrefixRoutes : r \in table
            /\ \A r \in WantedNexthops : PresentUpToSource(r)

\* A pass began with a fallback route replaced by another process's route and
\* without the IPv4 nexthop route, and has put both back.
C2_Witness ==
    \E p \in Procs :
        /\ AtReturn(p) /\ res = "ok" /\ AllReplacesOk /\ events > 0
        /\ \E r \in WantedPrefixRoutes :
              /\ r \notin startTable
              /\ \E x \in startTable : x.dst = r.dst
              /\ r \in table
        /\ \A r \in WantedNexthops : r \in table

\* A call of op for destination dst is in the log of the running pass
Called(op, dst) == \E i \in LogIdx : log[i].op = op /\ log[i].dst = dst

\* The kernel rejected the replace of a nexthop route in the running pass
NexthopRejected(routerNet) ==
    \E i \in LogIdx : IsReplace(i) /\ log[i].dst = routerNet /\ ~log[i].ok

\* Every step of a pass after the device lookup has been attempted
AllStepsAttempted ==
    /\ \A n \in RouterNets : Called("replaceNexthopRoute", n)
    /\ \A n \in cfg.nodes :
          \E i \in LogIdx : log[i].op = "synchronizeToDatapath" /\ log[i].node = n
    /\ ~cfg.upnr => \A a \in AllocRanges : Called("replaceNodeRoute", a)
    /\ \A a \in Range(cfg.aux) : Called("replaceNodeRoute", a)

\* C3 as claimed: a pass in which the nexthop install of one family failed
\* has still attempted the nexthop install of the other family, the
\* synchronization of every node, the fallback routes and the auxiliary
\* prefix routes when it returns.
C3_NexthopFailureDoesNotAbort ==
    \A p \in Procs :
        AtReturn(p) /\ (\E n \in RouterNets : NexthopRejected(n)) => AllStepsAttempted

\* A call of replaceNodeRoute or of a node's synchronizeToDatapath begins at i
CallStarts(i) == log[i].op \in {"replaceNodeRoute", "synchronizeToDatapath"}

\* The i-th entry of the log belongs to the replaceNodeRoute call logged at c
InCall(c, i) ==
    /\ log[c].op = "replaceNodeRoute"
    /\ c < i
    /\ \A m \in LogIdx : c < m /\ m <= i => ~CallStarts(m)

\* In the replaceNodeRoute call for auxiliary prefix a the kernel rejected a
\* replace: that of the nexthop route (link scope) or that of a's own route
AuxFailed(a) ==
    \E c, i \in LogIdx :
        /\ InCall(c, i) /\ log[c].dst = a
        /\ IsReplace(i) /\ ~log[i].ok
        /\ \/ log[i].scope = SCOPE_LINK /\ log[i].dst.ip = log[c].gw
           \/ log[i].scope = SCOPE_UNIVERSE /\ log[i].dst = a

\* C4: when the kernel rejects the replace of the route of auxiliary prefix
\* A, or the replace of the nexthop route in A's replaceNodeRoute call, the
\* replace for every other auxiliary prefix B is issued in the same pass, and
\* B's route is in the table at the end of the pass if the kernel accepted it.
C4_AuxIndependent ==
    \A p \in Procs :
        AtReturn(p) =>
            \A a, b \in Range(cfg.aux) :
                a # b /\ AuxFailed(a) =>
                    \E c, j \in LogIdx :
                        /\ InCall(c, j) /\ log[c].dst = b
                        /\ IsReplace(j) /\ log[j].scope = SCOPE_UNIVERSE /\ log[j].dst = b
                        /\ log[j].ok => WantRoute(b) \in table

\* The kernel began to reject the IPv4 router address while a pass ran: the
\* nexthop replace was rejected in the call for AuxA, first in the list, and
\* again in the call for AuxC, which shares the router address; the replace
\* for AuxC was issued and accepted, and AuxC's route is installed.
C4_Witness ==
    \E p \in Procs :
        /\ AtReturn(p) /\ cfg.aux = <<AuxA, AuxC>>
        /\ \E c, i, d, j \in LogIdx :
              /\ InCall(c, i) /\ log[c].dst = AuxA
              /\ IsReplace(i) /\ log[i].dst = HostNet4(GetInternalIPv4) /\ ~log[i].ok
              /\ i < d
              /\ InCall(d, j) /\ log[d].dst = AuxC
              /\ IsReplace(j) /\ log[j].dst = HostNet4(GetInternalIPv4) /\ ~log[j].ok
              /\ IsReplace(j + 1) /\ log[j + 1].dst = AuxC /\ log[j + 1].ok
        /\ WantRoute(AuxC) \in table

\* C5: after a successful pass with usePerNodeRoutes = false in which the
\* kernel accepted every replace, each allocation range has a route through
\* the router address of its family (not a node address) on the host device;
\* a pass with usePerNodeRoutes = true issues no replace for either range.
C5_Fallback ==
    \A p \in Procs :
        AtReturn(p) =>
            /\ res = "ok" /\ ~cfg.upnr /\ AllReplacesOk =>
                  /\ \E r \in table :
                        /\ r.dst = GetIPv4AllocRange /\ r.gw = GetInternalIPv4
                        /\ r.link = HostIndex /\ r.gw \notin NodeAddrs
                  /\ \E r \in table :
                        /\ r.dst = GetIPv6AllocRange /\ r.gw = GetIPv6Router
                        /\ r.link = HostIndex /\ r.gw \notin NodeAddrs
            /\ cfg.upnr => \A i \in LogIdx : IsReplace(i) => log[i].dst \notin AllocRanges

\* A successful pass without per-node routes has replaced both fallback routes.
C5_Witness ==
    \E p \in Procs :
        /\ AtReturn(p) /\ res = "ok" /\ ~cfg.upnr /\ AllReplacesOk
        /\ \A a \in AllocRanges : \E i \in LogIdx : IsReplace(i) /\ log[i].dst = a
        /\ \A a \in AllocRanges : WantRoute(a) \in table

\* C6: when the fallback routes were installed and the mode is
\* now usePerNodeRoutes = true, a successful pass leaves no allocation-range
\* fallback route in the table.
C6_Original ==
    \A p \in Procs :
        AtReturn(p) /\ res = "ok" /\ cfg.upnr =>
            \A a \in AllocRanges :
                WantRoute(a) \in startTable => WantRoute(a) \notin table

InPass(p) == pc[p] # "idle"

\* C7: no two passes are inside their critical section at the same time, a
\* mutator is never inside its own while a pass is, and the node set, the
\* auxiliary prefixes and usePerNodeRoutes do not change from the moment a
\* pass has taken the lock until it returns.
C7_Serialized ==
    [][/\ \A p, q \in Procs : p # q => ~(InPass(p)' /\ InPass(q)')
       /\ \A p \in Procs : ~(InPass(p)' /\ mpc' = "locked")
       /\ \A p \in Procs : InPass(p) /\ InPass(p)' => cfg' = cfg]_vars

\* A pass is between its reads of the node set and of the auxiliary prefixes
\* while the other caller and a mutator that has a change to make are both
\* kept out by the lock.
C7_Witness ==
    \E p \in Procs :
        /\ pc[p] = "fallback" /\ lock = p
        /\ mpc = "idle" /\ events < MaxEvents /\ ~ENABLED MutLock
        /\ \A q \in Procs \ {p} : pc[q] = "idle" /\ ~ENABLED Lock(q)

RouterOf(prefix) == IF prefix.bits = 32 THEN GetInternalIPv4 ELSE GetIPv6Router
SourceOf(prefix) == IF prefix.bits = 32 THEN GetInternalIPv4 ELSE GetIPv6
NodeAddr(n, prefix) == IF prefix.bits = 32 THEN NodeOf(n).ip4 ELSE NodeOf(n).ip6

PerNodeRoute(prefix) == Route(HostDevice, prefix, RouterOf(prefix), SourceOf(prefix))
Placeholder(prefix) == Route("", prefix, NoIP, NoIP)

\* C8: for the local node generateRoute returns the route with link, via and
\* source populated, for every prefix, both values of usePerNodeRoutes and of
\* the direct-routing flag, and every kernel table.
C8_LocalPopulated ==
    \A pf \in Prefixes, dr, upnr \in BOOLEAN :
        LET r == generateRoute(NodeOf("L"), pf, table, dr, upnr, env)
        IN /\ r = PerNodeRoute(pf)
           /\ r.link # "" /\ r.via # NoIP /\ r.source # NoIP
           /\ r # Placeholder(pf)

\* With direct routing on, per-node routes off and the local node's address
\* directly reachable, a pass has installed the local node's route through
\* the router address on the host device.
C8_Witness ==
    \E p \in Procs :
        /\ AtReturn(p) /\ direct /\ ~cfg.upnr /\ "L" \in cfg.nodes
        /\ RouteGet(table, NodeOf("L").ip4, env).routes # <<>>
        /\ RouteGet(table, NodeOf("L").ip4, env).routes[1].gw = NoIP
        /\ \E i \in LogIdx :
              /\ IsReplace(i) /\ log[i].dst = NodeOf("L").cidr4
              /\ log[i].gw = GetInternalIPv4 /\ log[i].link = HostIndex

\* The L2 validator has reason to fail for ip: the address is not known, the
\* lookup fails, there is no route, or the best route has a gateway
L2Fails(ip) ==
    LET g == RouteGet(table, ip, env)
    IN \/ ip = NoIP
       \/ g.err
       \/ Len(g.routes) = 0
       \/ g.routes[1].gw # NoIP

\* C9: with direct routing enabled, when the L2 validator fails for a remote
\* node's address, generateRoute does not set via to the node's address: it
\* returns the per-node route if usePerNodeRoutes, else the placeholder.
C9_Downgrade ==
    \A n \in NodeNames, pf \in Prefixes, upnr \in BOOLEAN :
        LET r == generateRoute(NodeOf(n), pf, table, TRUE, upnr, env)
        IN ~NodeOf(n).local /\ L2Fails(NodeAddr(n, pf)) =>
              /\ NodeAddr(n, pf) # NoIP => r.via # NodeAddr(n, pf)
              /\ r = IF upnr THEN PerNodeRoute(pf) ELSE Placeholder(pf)

\* The best route to the remote node's address goes through a gateway, direct
\* routing is on, and a pass has installed the node's prefix through the
\* router address instead of the node's address.
C9_Witness ==
    \E p \in Procs :
        /\ AtReturn(p) /\ direct /\ cfg.upnr /\ "R" \in cfg.nodes
        /\ RouteGet(table, NodeOf("R").ip4, env).routes # <<>>
        /\ RouteGet(table, NodeOf("R").ip4, env).routes[1].gw = "gx"
        /\ \E i \in LogIdx :
              /\ IsReplace(i) /\ log[i].dst = NodeOf("R").cidr4
              /\ log[i].gw = GetInternalIPv4 /\ log[i].link = HostIndex

\* What generateRoute returns for every node and prefix in the current state
Generated ==
    [n \in NodeNames, pf \in Prefixes |->
        generateRoute(NodeOf(n), pf, table, direct, cfg.upnr, env)]

\* What the L2 validator has reason to answer for every node address
L2Outcome == [ip \in NodeAddrs |-> L2Fails(ip)]

\* C10 as claimed: as long as the direct-routing flag and usePerNodeRoutes
\* stay the same, generateRoute returns the same route for the same node and
\* prefix, whatever happens to the kernel's routes.
C10_Original ==
    [][direct' = direct /\ cfg'.upnr = cfg.upnr => Generated' = Generated]_vars

\* C10 as amended: as long as the two flags and the outcome of the L2
\* validation of the node's address stay the same, generateRoute returns the
\* same route for the same node and prefix.
C10_Deterministic ==
    [][direct' = direct /\ cfg'.upnr = cfg.upnr /\ L2Outcome' = L2Outcome
          => Generated' = Generated]_vars

\* generateRoute has been called for the remote node's prefix in two passes,
\* the kernel table differing between the calls, and returned the direct
\* route both times.
C10_Witness ==
    \E p \in Procs :
        /\ AtReturn(p) /\ quiet /\ direct
        /\ KRoute(NodeOf("R").cidr4, NodeOf("R").ip4, NoIP, NoIndex, SCOPE_UNIVERSE) \in startTable
        /\ \E i \in LogIdx :
              /\ IsReplace(i) /\ log[i].dst = NodeOf("R").cidr4
              /\ log[i].gw = NodeOf("R").ip4 /\ log[i].link = NoIndex

\* ----------------------------------------------------------- route.Equal

\* The same address, whatever the length of the slice that holds it
SameIP(x, y) == x.addr = y.addr

\* The same network: the same address and as many host bits
SameNetwork(m, n) == m.ip = n.ip /\ m.bits - m.ones = n.bits - n.ones

SamePrefix(x, y) ==
    \/ x.id = 0 /\ y.id = 0
    \/ x.id # 0 /\ y.id # 0 /\ SameNetwork(x.net, y.net)

\* C11: route.Equal is reflexive and symmetric, and a.Equal(b) holds exactly
\* when link, via and source are the same (absent equals absent) and the
\* prefixes are both absent or denote the same network, whether or not they
\* are the same object; a route without prefix never equals one with a prefix.
C11_EqualIsStructural ==
    eq.pc = "done" =>
        /\ eq.aa
        /\ eq.ab = eq.ba
        /\ eq.ab <=> /\ eq.a.link = eq.b.link
                     /\ SameIP(eq.a.via, eq.b.via)
                     /\ SameIP(eq.a.source, eq.b.source)
                     /\ SamePrefix(eq.a.prefix, eq.b.prefix)
        /\ (eq.a.prefix.id = 0) # (eq.b.prefix.id = 0) => ~eq.ab

\* Two routes that differ only in the object that holds the same prefix, one
\* of them with its mask in 16 bytes, were compared and found equal
C11_Witness ==
    /\ eq.pc = "done"
    /\ eq.ab
    /\ eq.a.prefix.id # 0 /\ eq.b.prefix.id # 0
    /\ eq.a.prefix.id # eq.b.prefix.id
    /\ eq.a.prefix.net # eq.b.prefix.net
    /\ eq.a.via.len # eq.b.via.len

\* -------------------------------------------------------------- kvstore

\* initClient had returned nil, and was not running again, when g's
\* Client() call returned
ReadAfterInit(g) == kv.got[g].endPc = "idle" /\ kv.got[g].endRet = "nil"

\* C12: while the first initClient call has not returned successfully, no
\* Client() call returns a non-nil backend.
C12_NilUntilInitialized ==
    \A g \in Callers :
        kv.got[g].endCalls <= 1 /\ ~IsNil(kv.got[g].val) => ReadAfterInit(g)

\* A Client() call of g began after initClient had returned the error of a
\* failed lease renewal, and returned before initClient was called again
CalledAfterFailedRenewal(g) ==
    /\ kv.got[g].pc = "idle" /\ kv.got[g].ret = "errRenew"
    /\ kv.got[g].endCalls = kv.got[g].calls

\* C13: after initClient has returned the error of a failed lease renewal,
\* defaultClient is nil and every Client() call made from then on, until
\* initClient is called again, has returned nil; after it has returned the
\* error of newClient, defaultClient is what it was before the call.
C13_FailedInit ==
    /\ kv.pc = "idle" /\ kv.ret = "errRenew" => kv.defaultClient = NilIface
    /\ \A g \in Callers : CalledAfterFailedRenewal(g) => kv.got[g].val = NilIface
    /\ kv.pc = "idle" /\ kv.ret = "errNewClient" => kv.defaultClient = kv.before

\* After a successful first call, the second call's lease renewal failed and
\* a caller has read nil since
C13_Witness ==
    /\ kv.pc = "idle" /\ kv.calls = 2
    /\ kv.ret = "errRenew"
    /\ kv.before = Backend(1)
    /\ \E g \in Callers : CalledAfterFailedRenewal(g) /\ kv.got[g].calls = 2

\* ------------------------------------------------------ absent addresses

\* C14: when the router address or the allocation range of one family is
\* absent, a pass on a present device and an accepting kernel issues no
\* replace for the absent address, returns no error, and installs the
\* nexthop route of every router address that is present.
C14_AbsentFamilySkipped ==
    \A p \in Procs :
        AtReturn(p) /\ env.deviceOk /\ env.rejects = {} =>
            /\ res = "ok"
            /\ \A i \in LogIdx : IsReplace(i) => log[i].dst.ip # NoIP
            /\ \A routerNet \in RouterNets :
                  routerNet.ip # NoIP => \E x \in table : x.dst = routerNet /\ x.link = HostIndex

\* -------------------------------------------------------- missing device

\* C15: a pass that cannot resolve the host device returns an error, has
\* issued no replace and no delete, has synchronized no node and leaves the
\* kernel table as it found it; a pass in which the device resolves, also
\* one that follows such a pass, attempts the nexthop routes and, when the
\* kernel rejects nothing, synchronizes every node and returns no error.
C15_DeviceMissing ==
    \A p \in Procs :
        AtReturn(p) =>
            IF ~env.deviceOk
            THEN res = "err" /\ log = <<>> /\ table = startTable
            ELSE /\ log # <<>>
                 /\ log[1].op = "replaceNexthopRoute"
                 /\ env.rejects = {} =>
                       /\ res = "ok"
                       /\ \A n \in cfg.nodes :
                             \E i \in LogIdx : log[i].op = "synchronizeToDatapath" /\ log[i].node = n

\* The device was missing, a pass failed and installed nothing; the device
\* appeared, and the next pass has run to its end
C15_Witness ==
    \E p \in Procs :
        /\ AtReturn(p) /\ res = "ok"
        /\ lastRes = "err"
        /\ env = EnvOk /\ events = 1
        /\ startTable = InitialTable
        /\ cfg.nodes = NodeNames
        /\ \A routerNet \in RouterNets : WantNexthop(routerNet) \in table

\* ----------------------------------------------------- the three shapes

IsDirect(r, ip) == ip # NoIP /\ r.via = ip /\ r.link = "" /\ r.source = NoIP
IsPerNode(r, pf) == r.link = HostDevice /\ r.via = RouterOf(pf) /\ r.source = SourceOf(pf)
IsFallback(r) == r.link = "" /\ r.via = NoIP /\ r.source = NoIP

\* C16: what generateRoute returns has the prefix it was given and exactly
\* one of three shapes: direct (via the node's address, no link, no source),
\* only with direct routing on, the node remote and the L2 validation of its
\* address succeeding; per-node (host device, router address, source
\* address), only when the direct case does not apply and usePerNodeRoutes
\* is set or the node is local; fallback (prefix only), only when the direct
\* case does not apply, usePerNodeRoutes is not set and the node is remote.
C16_ThreeShapes ==
    \A n \in NodeNames, pf \in Prefixes :
        LET r == generateRoute(NodeOf(n), pf, table, direct, cfg.upnr, env)
            ip == NodeAddr(n, pf)
            local == NodeOf(n).local
            applies == direct /\ ~local /\ ~L2Fails(ip)
        IN /\ r.prefix = pf
           /\ Cardinality({x \in {"direct", "pernode", "fallback"} :
                              \/ x = "direct" /\ IsDirect(r, ip)
                              \/ x = "pernode" /\ IsPerNode(r, pf)
                              \/ x = "fallback" /\ IsFallback(r)}) = 1
           /\ IsDirect(r, ip) => applies
           /\ IsPerNode(r, pf) => ~applies /\ (cfg.upnr \/ local)
           /\ IsFallback(r) => ~applies /\ ~cfg.upnr /\ ~local

\* With direct routing on and per-node routes off, a pass has installed the
\* direct route of the remote node's IPv4 prefix and the per-node route of the
\* local node's; for the remote node's IPv6 prefix, its IPv6 address not
\* known, generateRoute returns the fallback shape
C16_Witness ==
    \E p \in Procs :
        /\ AtReturn(p) /\ direct /\ ~cfg.upnr /\ cfg.nodes = NodeNames
        /\ IsDirect(Generated["R", NodeOf("R").cidr4], NodeOf("R").ip4)
        /\ IsPerNode(Generated["L", NodeOf("L").cidr4], NodeOf("L").cidr4)
        /\ IsFallback(Generated["R", NodeOf("R").cidr6])
        /\ \E i, j \in LogIdx :
              /\ IsReplace(i) /\ log[i].dst = NodeOf("R").cidr4 /\ log[i].gw = NodeOf("R").ip4
              /\ IsReplace(j) /\ log[j].dst = NodeOf("L").cidr4 /\ log[j].link = HostIndex

\* ------------------------------------------------------ the L2 validator

\* The addresses the validator is asked about: the nodes' and, to have best
\* routes through a gateway, those of the prefixes this program routes
ValidatedAddrs == NodeAddrs \cup {pf.ip : pf \in Prefixes}

\* C17: validateDirectL2Route returns nil exactly when the address is known,
\* the route lookup succeeds and returns at least one route, and the first
\* route has no gateway; in each of the four other cases it returns an error.
C17_ValidatorIff ==
    \A ip \in ValidatedAddrs :
        LET g == RouteGet(table, ip, env)
            ok == validateDirectL2Route(table, ip, env)
        IN /\ ok <=> (ip # NoIP /\ ~g.err /\ Len(g.routes) >= 1 /\ g.routes[1].gw = NoIP)
           /\ ip = NoIP => ~ok
           /\ g.err => ~ok
           /\ Len(g.routes) = 0 => ~ok
           /\ (Len(g.routes) >= 1 /\ g.routes[1].gw # NoIP) => ~ok

\* A pass has installed the remote node's direct route, its address having
\* passed the validation; the validation fails for the node's unknown IPv6
\* address, for an address no route covers and for an address of the
\* allocation range, whose route goes through the router address
C17_Witness ==
    \E p \in Procs :
        /\ AtReturn(p) /\ direct /\ ~cfg.upnr /\ "R" \in cfg.nodes
        /\ \E i \in LogIdx :
              IsReplace(i) /\ log[i].dst = NodeOf("R").cidr4 /\ log[i].gw = NodeOf("R").ip4
        /\ validateDirectL2Route(table, NodeOf("R").ip4, env)
        /\ NodeOf("R").ip6 = NoIP /\ ~validateDirectL2Route(table, NodeOf("R").ip6, env)
        /\ RouteGet(table, NodeOf("L").cidr6.ip, env).routes = <<>>
        /\ RouteGet(table, GetIPv4AllocRange.ip, env).routes # <<>>
        /\ RouteGet(table, GetIPv4AllocRange.ip, env).routes[1].gw = GetInternalIPv4
        /\ ~validateDirectL2Route(table, GetIPv4AllocRange.ip, env)

\* -------------------------------------------------- the nexthop installer

\* findRoute has an entry to return: the device's routes can be listed and
\* one of them matches device, link scope, destination and empty gateway
NexthopFound(routerNet) ==
    /\ env.listOk
    /\ \E x \in table : /\ x.link = HostIndex /\ x.scope = SCOPE_LINK
                        /\ x.dst = routerNet /\ x.gw = NoIP

\* C18: replaceNexthopRoute, called in any state the program reaches: when a
\* matching entry is found it returns no error, issues no replace and leaves
\* the table as it is; when none is found, also because the listing fails, it
\* issues exactly one replace, of the link-scoped route to the router address
\* on the device, and returns an error, the table unchanged, if the kernel
\* rejects it. No pass issues two replaces for one replaceNexthopRoute call.
C18_NexthopFrame ==
    /\ \A routerNet \in RouterNets :
          LET r == replaceNexthopRoute([tbl |-> table, log |-> <<>>], HostIndex, routerNet, env)
              replaces == {i \in DOMAIN r.log : r.log[i].op = "RouteReplace"}
          IN IF NexthopFound(routerNet)
             THEN ~r.err /\ r.tbl = table /\ replaces = {}
             ELSE /\ Cardinality(replaces) = 1
                  /\ \A i \in replaces :
                        /\ r.log[i].dst = routerNet /\ r.log[i].gw = NoIP
                        /\ r.log[i].link = HostIndex /\ r.log[i].scope = SCOPE_LINK
                  /\ IF routerNet \in env.rejects
                     THEN r.err /\ r.tbl = table
                     ELSE ~r.err /\ WantNexthop(routerNet) \in r.tbl
    /\ \A i \in LogIdx :
          (log[i].op = "replaceNexthopRoute" /\ i + 2 \in LogIdx) =>
              ~(/\ IsReplace(i + 1) /\ log[i + 1].scope = SCOPE_LINK
                /\ IsReplace(i + 2) /\ log[i + 2].scope = SCOPE_LINK)

\* A pass has called replaceNexthopRoute for the IPv4 router address while
\* the table held the matching route, its source changed by another process:
\* no replace was issued and the route is as it was found
C18_Witness ==
    \E p \in Procs :
        /\ pc[p] = "nh6"
        /\ Len(log) = 1 /\ log[1].op = "replaceNexthopRoute"
        /\ log[1].dst = HostNet4(GetInternalIPv4)
        /\ [WantNexthop(HostNet4(GetInternalIPv4)) EXCEPT !.src = "sx"] \in table
        /\ table = startTable

\* --------------------------------------------- nexthop before prefix route

\* The replace at i is the prefix route of the replaceNodeRoute call logged at c
PrefixReplaceOf(c, i) ==
    /\ c < i
    /\ log[c].op = "replaceNodeRoute"
    /\ IsReplace(i) /\ log[i].scope = SCOPE_UNIVERSE
    /\ log[i].dst = log[c].dst /\ log[i].gw = log[c].gw
    /\ \A m \in LogIdx : c < m /\ m < i => ~CallStarts(m)

\* The nexthop route of the router address gw was attempted at j
NexthopAttemptAt(j, gw) ==
    /\ log[j].op = "replaceNexthopRoute"
    /\ log[j].dst.ip = gw /\ log[j].dst.ones = log[j].dst.bits
    /\ log[j].link = HostIndex /\ log[j].scope = SCOPE_LINK

\* C19: every replace of a fallback or auxiliary-prefix route through the
\* router address belongs to a replaceNodeRoute call that has attempted the
\* link-scoped nexthop route of that router address on the host device
\* before it; and every replaceNodeRoute call issues the replace of its
\* prefix route, also after its nexthop replace was rejected.
C19_NexthopFirst ==
    /\ \A i \in LogIdx :
          (/\ IsReplace(i) /\ log[i].scope = SCOPE_UNIVERSE
           /\ log[i].dst \in AllocRanges \cup AuxUniverse
           /\ log[i].gw \in {GetInternalIPv4, GetIPv6Router}) =>
              \E c, j \in LogIdx :
                  /\ PrefixReplaceOf(c, i)
                  /\ c < j /\ j < i
                  /\ NexthopAttemptAt(j, log[i].gw)
    /\ \A c \in LogIdx :
          log[c].op = "replaceNodeRoute" => \E i \in LogIdx : PrefixReplaceOf(c, i)

\* The kernel began to reject the IPv4 router address while a pass ran; the
\* pass's replaceNodeRoute for the IPv4 allocation range attempted the
\* nexthop route, had its replace rejected, and issued the replace of the
\* allocation range's route next
C19_Witness ==
    \E c, j \in LogIdx :
        /\ log[c].op = "replaceNodeRoute" /\ log[c].dst = GetIPv4AllocRange
        /\ c < j
        /\ NexthopAttemptAt(j, GetInternalIPv4)
        /\ IsReplace(j + 1) /\ log[j + 1].scope = SCOPE_LINK /\ ~log[j + 1].ok
        /\ PrefixReplaceOf(c, j + 2)
        /\ log[j + 2].gw = GetInternalIPv4

\* ------------------------------------------------------- lock release

\* C20: a pass that returns, with or without error, leaves the lock free,
\* and whoever holds the lock, a pass or a mutator, releases it: the lock is
\* free again after every acquisition, so that a caller or mutator waiting
\* for it can take it, whatever number of failed passes came before.
C20_LockReleased ==
    /\ [][\A p \in Procs : pc[p] = "ret" /\ pc'[p] = "idle" => lock' = "none"]_vars
    /\ \A h \in Procs \cup {"mutator"} : (lock = h) ~> (lock = "none")
    /\ [](lock = "none" => \A p \in Procs : ENABLED Lock(p))

\* A pass that failed on a rejected nexthop route has returned, and the other
\* caller has taken the lock after it, failed in the same way and is about to
\* return
C20_Witness ==
    /\ lastRes = "err"
    /\ env.deviceOk /\ env.rejects # {}
    /\ \E p \in Procs :
          /\ AtReturn(p) /\ res = "err" /\ lock = p
          /\ \E i \in LogIdx : IsReplace(i) /\ ~log[i].ok

====
